---------------------------- MODULE Spec2Model ----------------------------
(***************************************************************************)
(* Model of the PST extraction pipeline (src/pst_extractor.py,             *)
(* src/extract_pst.py) and of the rule-based e-mail classifier             *)
(* (src/email_classifier.py).                                              *)
(*                                                                         *)
(* Two specifications share the variables:                                 *)
(*   Spec          the extractor walking an archive, being interrupted and *)
(*                 restarted, followed by the aggregator reading the store *)
(*   SpecClassify  the aggregator over a store holding one message whose   *)
(*                 subject, body and attachments are drawn from bounded    *)
(*                 sets                                                    *)
(*                                                                         *)
(* Texts are TLA+ strings read with Len and SubSeq; the regular            *)
(* expressions of the classifier are matched character by character.       *)
(***************************************************************************)
EXTENDS Integers, Sequences, FiniteSets, TLC

VARIABLES
    archive,          \* the archive read by pypff: a sequence of folders (walk order)
    pc,               \* position of the extractor process ("idle": no process)
    cur,              \* [f, m, direct]: folder and message index the walk stands
                      \* at, and whether the folder is read by direct iteration
    processed_count,  \* PSTExtractor.processed_count
    progress_data,    \* PSTExtractor.progress_data (in memory)
    progress_file,    \* output/progress.json: <<>> when absent, else <<record>>
    emails_dir,       \* output/emails/<id>.eml: id -> <<>> or <<[plain, html]>>
    attachments_dir,  \* output/attachments/<id>/: id -> set of files [name, cells]
    metadata_dir,     \* output/metadata/<id>.json: id -> <<>> or <<record>>
    pending,          \* locals of process_message: [email_id, attachments, eml_file]
    clock,            \* datetime.now(), one tick per extractor process
    ended,            \* how the last extractor process left extract()
    results,          \* output/classification/classification_results.json
    results_at,       \* the value of clock when results was written
    raised,           \* whether the last classify_all_emails ended by an exception
    open_workbooks,   \* workbooks the last classify_all_emails opened and did
                      \* not close
    loaded,           \* progress.json as load_progress() found it (this process)
    prior,            \* how the process before this one left extract()
    written,          \* files written by this process: set of <<kind, id>>
    intr              \* how the run before was interrupted: [clean, mid, count]

vars == <<archive, pc, cur, processed_count, progress_data, progress_file,
          emails_dir, attachments_dir, metadata_dir, pending, clock, ended,
          results, results_at, raised, open_workbooks, loaded, prior, written,
          intr>>

---------------------------------------------------------------------------
(* Bounds of the model.                                                    *)

\* extractor processes started in one behaviour
MaxRuns == 2
\* attachment files in the store of a message SpecClassify classifies
MaxFiles == 3

---------------------------------------------------------------------------
(* Text.                                                                   *)

Ch(s, i) == SubSeq(s, i, i)

Min(a, b) == IF a < b THEN a ELSE b

LowerChars == "abcdefghijklmnopqrstuvwxyzáéíóúñ"
UpperChars == "ABCDEFGHIJKLMNOPQRSTUVWXYZÁÉÍÓÚÑ"
DigitChars == "0123456789"

\* the characters of a string, as a set
CharSet(chars) == {Ch(chars, i) : i \in 1..Len(chars)}

LowerSet == CharSet(LowerChars)
UpperSet == CharSet(UpperChars)
DigitSet == CharSet(DigitChars)
WordSet == LowerSet \cup UpperSet \cup DigitSet \cup {"_"}
SpaceSet == {" ", "\t", "\n"}

\* str.upper(), character by character
UpperOf ==
    [c \in LowerSet |->
        Ch(UpperChars, CHOOSE i \in 1..Len(LowerChars) : Ch(LowerChars, i) = c)]

UpperCh(c) == IF c \in LowerSet THEN UpperOf[c] ELSE c

RECURSIVE UpperFrom(_, _)
UpperFrom(s, i) == IF i > Len(s) THEN "" ELSE UpperCh(Ch(s, i)) \o UpperFrom(s, i + 1)

\* str.upper()
Upper(s) == IF \A i \in 1..Len(s) : Ch(s, i) \notin LowerSet THEN s ELSE UpperFrom(s, 1)

\* \d, \s and \w of Python's re on str patterns (Unicode aware)
IsDigit(c) == c \in DigitSet
IsSpace(c) == c \in SpaceSet
IsWord(c) == c \in WordSet

\* `sub in s`
Contains(s, sub) ==
    \E i \in 1..(Len(s) - Len(sub) + 1) : SubSeq(s, i, i + Len(sub) - 1) = sub

\* s.endswith(suffix)
EndsWith(s, suffix) ==
    /\ Len(s) >= Len(suffix)
    /\ SubSeq(s, Len(s) - Len(suffix) + 1, Len(s)) = suffix

---------------------------------------------------------------------------
(* Regular expressions: a pattern is a sequence of elements, matched the   *)
(* way re.search matches it. Every search of the classifier passes         *)
(* re.IGNORECASE: the literals are held upper-cased and the text is        *)
(* upper-cased before matching.                                            *)

Lit(s) == [t |-> "lit", a |-> Upper(s)]   \* literal text
Cls(chars) == [t |-> "cls", a |-> CharSet(chars)]  \* [..]: one character of chars
WB == [t |-> "b"]                          \* \b
WS1 == [t |-> "s+"]                        \* \s+
D1 == [t |-> "d+"]                         \* \d+
Any0 == [t |-> ".*"]                       \* .*
AnyUpTo(n) == [t |-> ".{0,n}", a |-> n]    \* .{0,n}
NotWord == [t |-> "(?!w)"]                 \* (?!\w)
Alt(branches) == [t |-> "alt", a |-> branches]  \* (x|y|z)
At(j) == [t |-> "at", a |-> j]             \* the position j (marks a group's start)

\* \b between s[i-1] and s[i]
IsBoundary(s, i) ==
    LET before == i > 1 /\ IsWord(Ch(s, i - 1))
        after == i <= Len(s) /\ IsWord(Ch(s, i))
    IN before # after

RECURSIVE MatchAt(_, _, _, _)
\* whether pat[k..] matches s at position i (i = Len(s) + 1: the end of s)
MatchAt(pat, k, s, i) ==
    IF k > Len(pat) THEN TRUE
    ELSE LET e == pat[k] IN
      CASE e.t = "lit" ->
             /\ i + Len(e.a) - 1 <= Len(s)
             /\ SubSeq(s, i, i + Len(e.a) - 1) = e.a
             /\ MatchAt(pat, k + 1, s, i + Len(e.a))
        [] e.t = "cls" ->
             i <= Len(s) /\ Ch(s, i) \in e.a /\ MatchAt(pat, k + 1, s, i + 1)
        [] e.t = "b" -> IsBoundary(s, i) /\ MatchAt(pat, k + 1, s, i)
        [] e.t = "s+" ->
             \E j \in (i + 1)..(Len(s) + 1) :
                 /\ \A x \in i..(j - 1) : IsSpace(Ch(s, x))
                 /\ MatchAt(pat, k + 1, s, j)
        [] e.t = "d+" ->
             \E j \in (i + 1)..(Len(s) + 1) :
                 /\ \A x \in i..(j - 1) : IsDigit(Ch(s, x))
                 /\ MatchAt(pat, k + 1, s, j)
        [] e.t = ".*" ->
             \E j \in i..(Len(s) + 1) :
                 /\ \A x \in i..(j - 1) : Ch(s, x) # "\n"
                 /\ MatchAt(pat, k + 1, s, j)
        [] e.t = ".{0,n}" ->
             \E j \in i..Min(i + e.a, Len(s) + 1) :
                 /\ \A x \in i..(j - 1) : Ch(s, x) # "\n"
                 /\ MatchAt(pat, k + 1, s, j)
        [] e.t = "(?!w)" -> ~(i <= Len(s) /\ IsWord(Ch(s, i))) /\ MatchAt(pat, k + 1, s, i)
        [] e.t = "alt" ->
             \E br \in e.a : MatchAt(br \o SubSeq(pat, k + 1, Len(pat)), 1, s, i)
        [] e.t = "at" -> i = e.a /\ MatchAt(pat, k + 1, s, i)

\* re.search(pattern, text, re.IGNORECASE) is not None
Search(pat, text) ==
    LET u == Upper(text) IN \E i \in 1..(Len(u) + 1) : MatchAt(pat, 1, u, i)

\* the longest run of digits of s that starts at i
DigitRun(s, i) ==
    LET stop == CHOOSE j \in i..(Len(s) + 1) :
                    /\ \A x \in i..(j - 1) : IsDigit(Ch(s, x))
                    /\ (j = Len(s) + 1 \/ ~IsDigit(Ch(s, j)))
    IN SubSeq(s, i, stop - 1)

\* re.search(prefix + r'(\d+)', text, re.IGNORECASE).group(1): the leftmost
\* match; the group starts where the prefix ends (every prefix used ends in
\* \s+, so that place is unique) and \d+ is greedy. "" when nothing matches.
SearchGroup(prefix, text) ==
    LET u == Upper(text)
        pat == prefix \o <<D1>>
        starts == {i \in 1..(Len(u) + 1) : MatchAt(pat, 1, u, i)}
    IN IF starts = {} THEN ""
       ELSE LET i0 == CHOOSE i \in starts : \A j \in starts : i <= j
                g == CHOOSE j \in i0..Len(u) :
                         IsDigit(Ch(u, j)) /\ MatchAt(prefix \o <<At(j)>>, 1, u, i0)
            IN DigitRun(u, g)

---------------------------------------------------------------------------
(* setup_patterns: the keyword patterns of the three categories.           *)

W(word) == <<WB, Lit(word), WB>>          \* \bword\b
ON == Cls("OÓ")                            \* [OÓ]
on == Cls("ÓO")                            \* [óo], upper-cased

cotizacion_asunto_patterns ==
    << <<WB, Lit("COTIZACI"), ON, Lit("N"), WB>>,
       W("COT."),
       <<WB, Lit("COT"), WB, NotWord>>,
       W("COT RESIDENCIAL"),
       W("APOYO COTIZACION"),
       <<WB, Lit("AGENTE"), WS1, D1>>,
       <<WB, Lit("AG"), WS1, D1>> >>

cotizacion_cuerpo_patterns ==
    << <<Lit("solicito su apoyo cotizando")>>,
       <<Lit("apoyo para cotizar")>>,
       <<Lit("solicitud de cotizaci"), on, Lit("n")>>,
       <<WB, Lit("AGENTE"), WS1, D1>> >>

renovacion_asunto_patterns ==
    << <<WB, Lit("RENOVACI"), ON, Lit("N"), WB>>,
       W("RENOVAR"),
       W("RENOVACIONES"),
       <<WB, Lit("REHABILITACI"), ON, Lit("N"), WB>>,
       <<WB, Lit("PR"), ON, Lit("RROGA"), WB>>,
       W("RV"),
       W("RENOV"),
       <<WB, Lit("COTI RENOVACI"), ON, Lit("N"), WB>> >>

renovacion_cuerpo_patterns ==
    << <<Lit("vigencia pr"), on, Lit("xima a vencer")>>,
       <<Lit("solicito renovaci"), on, Lit("n")>>,
       <<Lit("renovar p"), on, Lit("liza")>>,
       <<Lit("dar continuidad a la p"), on, Lit("liza")>>,
       <<Lit("pr"), on, Lit("rroga de la vigencia")>>,
       <<Lit("rehabilitaci"), on, Lit("n de p"), on, Lit("liza")>>,
       <<Lit("continuidad de p"), on, Lit("liza")>>,
       <<Lit("renovar p"), on, Lit("liza "), D1>> >>

endoso_asunto_patterns ==
    << W("ENDOSO"),
       W("ENDOSOS"),
       W("ENDOSAR"),
       W("ENDORSEMENT"),
       <<WB, Lit("ENDOSO "), Cls("AB"), WB>>,
       W("ENDOSO DE BP"),
       W("ENDOSO ESPECIAL"),
       <<WB, Lit("ENDOSO"), Any0, Lit("MODIFICACI"), ON, Lit("N"), WB>>,
       <<WB, Lit("MODIFICACI"), ON, Lit("N"), Any0, Lit("ENDOSO"), WB>>,
       <<WB, Lit("INCISO "), D1, WB>>,
       <<Lit("CORRECCI"), ON, Lit("N DE DATO")>>,
       <<Lit("CAMBIO DE COBERTURA")>>,
       <<Lit("INCREMENTO DE SUMA ASEGURADA")>>,
       <<WB, Lit("OT-"), D1>>,
       <<Lit("DOCUMENTO "), D1>>,
       <<Lit("MODIFICACI"), ON, Lit("N"), Any0, Lit("NO"), WS1, Lit("OT")>>,
       <<Lit("ENDOSO"), Any0, Lit("("), Any0,
         Alt({ <<Lit("MODIFICACI"), ON, Lit("N")>>,
               <<Lit("CAMBIO")>>,
               <<Lit("CORRECCI"), ON, Lit("N")>> }),
         Any0, Lit(")")>> >>

endoso_cuerpo_patterns ==
    << <<Lit("correcci"), on, Lit("n de dato")>>,
       <<Lit("modificar inciso")>>,
       <<Lit("incluir"), AnyUpTo(20), Lit("beneficiario")>>,
       <<Lit("excluir"), AnyUpTo(20), Lit("beneficiario")>>,
       <<Lit("cambiar suma asegurada")>>,
       <<Lit("actualizaci"), on, Lit("n de cobertura")>>,
       <<Lit("actualizaci"), on, Lit("n de beneficios")>>,
       <<Lit("incorporaci"), on, Lit("n de cl"), Cls("ÁA"), Lit("usulas")>> >>

\* `for pattern in patterns: if re.search(pattern, text, re.IGNORECASE): ... break`
AnyPattern(patterns, text) == \E k \in 1..Len(patterns) : Search(patterns[k], text)

RECURSIVE FirstGroup(_, _, _)
\* `for pattern in patterns: match = re.search(...); if match: return match.group(1)`
FirstGroup(prefixes, k, text) ==
    IF k > Len(prefixes) THEN ""
    ELSE IF Search(prefixes[k] \o <<D1>>, text) THEN SearchGroup(prefixes[k], text)
    ELSE FirstGroup(prefixes, k + 1, text)

\* the patterns of extract_agente_code, each without its final (\d+)
agente_patterns == << <<WB, Lit("AGENTE"), WS1>>, <<WB, Lit("AG"), WS1>> >>

extract_agente_code(text) == FirstGroup(agente_patterns, 1, text)

\* the patterns of extract_poliza_number, each without its final (\d+)
poliza_patterns ==
    << <<WB, Lit("p"), on, Lit("liza"), WS1>>,
       <<WB, Lit("P"), ON, Lit("LIZA"), WS1>>,
       <<WB, Lit("OT"), WS1>>,
       <<WB, Lit("N"), Cls("ÚU"), Lit("MERO"), WS1>> >>

extract_poliza_number(text) == FirstGroup(poliza_patterns, 1, text)

---------------------------------------------------------------------------
(* extract_email_content: the body texts read back from the .eml file.     *)

RECURSIVE Strip(_)
\* str.strip()
Strip(s) ==
    IF Len(s) = 0 THEN ""
    ELSE IF IsSpace(Ch(s, 1)) THEN Strip(SubSeq(s, 2, Len(s)))
    ELSE IF IsSpace(Ch(s, Len(s))) THEN Strip(SubSeq(s, 1, Len(s) - 1))
    ELSE s

\* the first position >= i of s holding character c, Len(s) + 1 when none
Find(s, c, i) ==
    CHOOSE j \in i..(Len(s) + 1) :
        /\ j = Len(s) + 1 \/ Ch(s, j) = c
        /\ \A x \in i..(j - 1) : Ch(s, x) # c

RECURSIVE TextNodes(_, _)
\* the text nodes of an HTML document from position i on, each stripped,
\* the empty ones dropped
TextNodes(h, i) ==
    IF i > Len(h) THEN <<>>
    ELSE IF Ch(h, i) = "<" THEN TextNodes(h, Find(h, ">", i) + 1)
    ELSE LET stop == Find(h, "<", i)
             node == Strip(SubSeq(h, i, stop - 1))
         IN (IF node = "" THEN <<>> ELSE <<node>>) \o TextNodes(h, stop)

RECURSIVE Join(_, _)
\* sep.join(parts)
Join(parts, sep) ==
    IF Len(parts) = 0 THEN ""
    ELSE IF Len(parts) = 1 THEN parts[1]
    ELSE parts[1] \o sep \o Join(Tail(parts), sep)

\* BeautifulSoup(html, 'html.parser').get_text(separator=' ', strip=True)
get_text(html) == Join(TextNodes(html, 1), " ")

NoContent == [plain_text |-> "", html_content |-> "", combined_text |-> ""]

\* eml: <<>> when output/emails/<id>.eml does not exist, else <<[plain, html]>>,
\* the text/plain and text/html parts create_eml_file attached ("": no part)
extract_email_content(eml) ==
    IF eml = <<>> THEN NoContent
    ELSE LET plain == eml[1].plain
             html == eml[1].html
             combined == IF html # "" THEN get_text(html) ELSE ""
         IN [plain_text |-> IF plain = "" /\ combined # "" THEN combined ELSE plain,
             html_content |-> html,
             combined_text |-> combined]

---------------------------------------------------------------------------
(* analyze_attachments: the files of output/attachments/<id>/ by name.     *)
(* A file is [name, cells]: cells is the number of non-empty cells of the  *)
(* active sheet of a workbook, -1 for a file openpyxl cannot load, -2 for  *)
(* a workbook that is loaded and whose cells cannot be counted (its active *)
(* sheet has no rows to iterate).                                          *)

NoAttachments ==
    [has_slip |-> FALSE, slip_complete |-> FALSE, slip_files |-> <<>>,
     pdf_cotizacion |-> <<>>, pdf_poliza |-> <<>>, pdf_renovacion |-> <<>>,
     pdf_endoso |-> <<>>, excel_files |-> <<>>, total_attachments |-> 0]

\* any(word in filename for word in words)
AnyWordIn(words, filename) == \E w \in words : Contains(filename, w)

IsExcel(filename) == EndsWith(filename, ".XLSX") \/ EndsWith(filename, ".XLS")

\* more than this many filled cells make a slip complete
SlipCompleteOver == 5

\* filename.endswith(('.XLSX', '.XLS')) and 'SLIP' in filename
IsSlip(filename) == IsExcel(filename) /\ Contains(filename, "SLIP")

\* whether the slip check of analyze_attachments leaves the workbook of the
\* file open: wb.close() is the last statement of the try block, and the
\* handler passes
LeavesOpen(file) == IsSlip(Upper(file.name)) /\ file.cells = -2

\* an analysis that counts the files and looks at none; the status of a
\* quote depends on the slip being recognised and its cells counted
AnalyzeFile_CountOnly(info, file) ==
    [info EXCEPT !.total_attachments = @ + 1]

\* one iteration of `for file_path in attachment_dir.iterdir()`
AnalyzeFile(info, file) ==
    LET filename == Upper(file.name)
        counted == [info EXCEPT !.total_attachments = @ + 1]
    IN IF IsSlip(filename)
       THEN [counted EXCEPT
               !.has_slip = TRUE,
               !.slip_files = Append(@, file.name),
               \* load_workbook raising leaves slip_complete as it was
               !.slip_complete = IF file.cells < 0 THEN @
                                 ELSE file.cells > SlipCompleteOver]
       ELSE IF IsExcel(filename)
       THEN [counted EXCEPT !.excel_files = Append(@, file.name)]
       ELSE IF EndsWith(filename, ".PDF") /\
               AnyWordIn({"COTIZACION", "COT", "PROPUESTA",
                          "SEGURO MULTIPLE EMPRESARIAL"}, filename)
       THEN [counted EXCEPT !.pdf_cotizacion = Append(@, file.name)]
       ELSE IF EndsWith(filename, ".PDF") /\
               AnyWordIn({"POLIZA", "PBE", "RECIBO"}, filename)
       THEN [counted EXCEPT !.pdf_poliza = Append(@, file.name)]
       ELSE IF EndsWith(filename, ".PDF") /\
               AnyWordIn({"RENOVACION", "RENOVAR", "CONDICIONES DE RENOVACION",
                          "PRORROGA", "REHABILITACION"}, filename)
       THEN [counted EXCEPT !.pdf_renovacion = Append(@, file.name)]
       ELSE IF EndsWith(filename, ".PDF") /\
               AnyWordIn({"ENDOSO", "BENEFICIOS", "INCISO", "CORRECCION",
                          "MODIFICACION"}, filename)
       THEN [counted EXCEPT !.pdf_endoso = Append(@, file.name)]
       ELSE counted

RECURSIVE AnalyzeFrom(_, _, _)
AnalyzeFrom(info, listing, k) ==
    IF k > Len(listing) THEN info
    ELSE AnalyzeFrom(AnalyzeFile(info, listing[k]), listing, k + 1)

\* listing: the files of the message's directory in the order iterdir()
\* yields them (<<>> when the directory does not exist)
analyze_attachments(listing) == AnalyzeFrom(NoAttachments, listing, 1)

---------------------------------------------------------------------------
(* The three evaluators. metadata is the metadata record of the message,   *)
(* info the result of analyze_attachments, content the result of           *)
(* extract_email_content.                                                  *)

\* score >= threshold sets is_cotizacion / is_renovacion / is_endoso
CotizacionThreshold == 40
RenovacionThreshold == 40
EndosoThreshold == 30
\* classify_email: the least confidence that names a primary category
PrimaryFloor == 30

\* min(100, score)
Confidence(score) == Min(100, score)

\* `a or b` of two strings
OrElse(a, b) == IF a # "" THEN a ELSE b

\* what the three evaluators take from the texts of a message: asunto and
\* cuerpo, the patterns that match them, the agent code and the policy
\* number found in the subject or else in the body
Evidence(metadata, content) ==
    LET asunto == Upper(metadata.subject)
        cuerpo == Upper(content.combined_text)
    IN [asunto |-> asunto,
        cotizacion_asunto |-> AnyPattern(cotizacion_asunto_patterns, asunto),
        agente_code |->
            OrElse(extract_agente_code(asunto), extract_agente_code(cuerpo)),
        cotizacion_cuerpo |-> AnyPattern(cotizacion_cuerpo_patterns, cuerpo),
        renovacion_asunto |-> AnyPattern(renovacion_asunto_patterns, asunto),
        poliza_number |->
            OrElse(extract_poliza_number(asunto), extract_poliza_number(cuerpo)),
        renovacion_cuerpo |-> AnyPattern(renovacion_cuerpo_patterns, cuerpo),
        endoso_asunto |-> AnyPattern(endoso_asunto_patterns, asunto),
        endoso_cuerpo |-> AnyPattern(endoso_cuerpo_patterns, cuerpo)]

\* the scoring of classify_cotizacion, ca1 and ca3 telling whether a subject
\* and a body pattern matched
ScoreCotizacion(info, ca1, agente_code, ca3) ==
    LET score == (IF ca1 THEN 30 ELSE 0)
                 + (IF agente_code # "" THEN 20 ELSE 0)
                 + (IF ca3 THEN 15 ELSE 0)
                 + (IF info.has_slip THEN 25 ELSE 0)
                 + (IF info.has_slip /\ info.slip_complete THEN 15 ELSE 0)
                 + (IF info.pdf_cotizacion # <<>> THEN 20 ELSE 0)
                 - (IF info.pdf_poliza # <<>> THEN 15 ELSE 0)
        met == score >= CotizacionThreshold
    IN [met |-> met,
        confidence |-> Confidence(score),
        agente_code |-> agente_code,
        poliza_number |-> "",
        endoso_type |-> "",
        status |-> IF info.has_slip
                   THEN (IF info.slip_complete
                         THEN "Cotización con información completa"
                         ELSE "Cotización pendiente")
                   ELSE IF met THEN "Cotización detectada" ELSE ""]

classify_cotizacion(metadata, info, content) ==
    LET ev == Evidence(metadata, content)
    IN ScoreCotizacion(info, ev.cotizacion_asunto, ev.agente_code,
                       ev.cotizacion_cuerpo)

\* the scoring of classify_renovacion
ScoreRenovacion(info, asunto, ca1, poliza_number, ca4) ==
    LET score == (IF ca1 THEN 35 ELSE 0)
                 + (IF poliza_number # "" THEN 20 ELSE 0)
                 + (IF ca4 THEN 15 ELSE 0)
                 + (IF info.pdf_renovacion # <<>> THEN 25 ELSE 0)
                 + (IF info.pdf_poliza # <<>> /\
                       AnyWordIn({"RENOVACION", "RENOVAR"}, asunto) THEN 20 ELSE 0)
                 - (IF info.pdf_cotizacion # <<>> /\
                       ~Contains(asunto, "RENOVACION") THEN 20 ELSE 0)
        met == score >= RenovacionThreshold
    IN [met |-> met,
        confidence |-> Confidence(score),
        agente_code |-> "",
        poliza_number |-> poliza_number,
        endoso_type |-> "",
        status |-> IF ~met THEN ""
                   ELSE IF info.total_attachments > 0 /\ poliza_number # ""
                   THEN "Renovación con información completa"
                   ELSE "Renovación pendiente"]

classify_renovacion(metadata, info, content) ==
    LET ev == Evidence(metadata, content)
    IN ScoreRenovacion(info, ev.asunto, ev.renovacion_asunto, ev.poliza_number,
                       ev.renovacion_cuerpo)

\* the scoring of classify_endoso
ScoreEndoso(info, asunto, ca1, ca3, poliza_number) ==
    LET score == (IF ca1 THEN 35 ELSE 0)
                 + (IF ca3 THEN 15 ELSE 0)
                 + (IF poliza_number # "" THEN 25 ELSE 0)
                 + (IF info.pdf_endoso # <<>> THEN 20 ELSE 0)
                 + (IF info.pdf_poliza # <<>> /\
                       AnyWordIn({"ENDOSO", "MODIFICACION", "CORRECCION"}, asunto)
                    THEN 15 ELSE 0)
        met == score >= EndosoThreshold
    IN [met |-> met,
        confidence |-> Confidence(score),
        agente_code |-> "",
        poliza_number |-> poliza_number,
        endoso_type |-> IF ~ca1 THEN ""
                        ELSE IF Contains(asunto, "ENDOSO A") THEN "A"
                        ELSE IF Contains(asunto, "ENDOSO B") THEN "B"
                        ELSE IF Contains(asunto, "ENDOSO DE BP") THEN "BP"
                        ELSE IF Contains(asunto, "ENDOSO ESPECIAL") THEN "ESPECIAL"
                        ELSE "",
        status |-> IF ~met THEN ""
                   ELSE IF poliza_number # "" /\
                           (info.pdf_endoso # <<>> \/ info.pdf_poliza # <<>>)
                   THEN "Endoso completo"
                   ELSE "Endoso incompleto"]

classify_endoso(metadata, info, content) ==
    LET ev == Evidence(metadata, content)
    IN ScoreEndoso(info, ev.asunto, ev.endoso_asunto, ev.endoso_cuerpo,
                   ev.poliza_number)

---------------------------------------------------------------------------
(* classify_email: the three evaluators and the primary classification.    *)

\* a classify_email that leaves the three classifications in the order they
\* were computed; the primary classification depends on the sort
SortByConfidence_Unsorted(list) == list

RECURSIVE InsertByConfidence(_, _)
\* x put into a list sorted by falling confidence, behind the entries whose
\* confidence is not smaller (list.sort is stable)
InsertByConfidence(sorted, x) ==
    IF sorted = <<>> THEN <<x>>
    ELSE IF Head(sorted)[2].confidence >= x[2].confidence
    THEN <<Head(sorted)>> \o InsertByConfidence(Tail(sorted), x)
    ELSE <<x>> \o sorted

RECURSIVE SortFrom(_, _, _)
SortFrom(sorted, list, k) ==
    IF k > Len(list) THEN sorted
    ELSE SortFrom(InsertByConfidence(sorted, list[k]), list, k + 1)

\* classifications.sort(key=lambda x: x[1]['confidence'], reverse=True)
SortByConfidence(list) == SortFrom(<<>>, list, 1)

\* the primary classification, classifications being sorted by confidence
PrimaryOf(classifications) ==
    [type |-> IF classifications[1][2].confidence >= PrimaryFloor
              THEN classifications[1][1] ELSE "sin_clasificar",
     confidence |-> classifications[1][2].confidence,
     status |-> classifications[1][2].status]

\* the result of classify_email, the email_id left out
Classification(info, cotizacion, renovacion, endoso) ==
    [attachment_analysis |-> info,
     cotizacion |-> cotizacion,
     renovacion |-> renovacion,
     endoso |-> endoso,
     primary_classification |->
         PrimaryOf(SortByConfidence(<< <<"cotizacion", cotizacion>>,
                                       <<"renovacion", renovacion>>,
                                       <<"endoso", endoso>> >>))]

\* the three evaluators on the attachment analysis info and the text
\* evidence ev of one message
ClassifyWith(info, ev) ==
    Classification(
        info,
        ScoreCotizacion(info, ev.cotizacion_asunto, ev.agente_code,
                        ev.cotizacion_cuerpo),
        ScoreRenovacion(info, ev.asunto, ev.renovacion_asunto, ev.poliza_number,
                        ev.renovacion_cuerpo),
        ScoreEndoso(info, ev.asunto, ev.endoso_asunto, ev.endoso_cuerpo,
                    ev.poliza_number))

\* the three evaluators on one message
Evaluators(metadata, info, content) ==
    ClassifyWith(info, Evidence(metadata, content))

\* classify_email without the email_id: subject is the subject of the
\* metadata record, eml the .eml file (<<>> when missing), listing the
\* attachment directory as iterdir() lists it
Evaluate(subject, eml, listing) ==
    Evaluators([subject |-> subject],
               analyze_attachments(listing),
               extract_email_content(eml))

---------------------------------------------------------------------------
(* The archive: the folders in the order process_folder reaches them, each *)
(* a sequence of messages. A message carries what pypff returns for it and *)
(* may_fail, the steps of process_message that can raise for it:           *)
(*   "accessor"    folder.get_sub_message raises for it                    *)
(*   "count"       get_number_of_attachments raises, get_attachment works  *)
(*   "retrieve"    get_number_of_attachments, or get_attachment for its    *)
(*                 first attachment, raises                                *)
(*   "attachment"  reading or writing one of its attachments raises        *)
(*   "eml"         building or writing the .eml raises                     *)
(*   "metadata"    json.dump of its metadata record raises                 *)

ShortArchive ==
    << << [subject |-> "COTIZACION AGENTE 123",
           plain |-> "",
           html |-> "<p>Solicito su apoyo cotizando</p>",
           atts |-> << [name |-> "SLIP.xlsx", cells |-> 6] >>,
           may_fail |-> {"eml", "metadata"}],
          [subject |-> "RENOVACION POLIZA 456",
           plain |-> "Solicito renovación",
           html |-> "",
           atts |-> << [name |-> "Poliza.pdf", cells |-> 0] >>,
           may_fail |-> {"attachment"}] >>,
       << [subject |-> "ENDOSO A",
           plain |-> "",
           html |-> "",
           atts |-> << >>,
           may_fail |-> {}] >> >>

RECURSIVE CountMessages(_, _)
CountMessages(arch, f) ==
    IF f > Len(arch) THEN 0 ELSE Len(arch[f]) + CountMessages(arch, f + 1)

\* every id a walk of archive arch can assign
IdsOf(arch) == 1..CountMessages(arch, 1)

\* the ids of the store
Ids == DOMAIN metadata_dir

---------------------------------------------------------------------------
(* PSTExtractor: progress and store.                                       *)

\* the periodic save_progress of process_message: `processed_count % 10 == 0`
CheckpointEvery == 10

\* load_progress when progress.json does not exist; start_time and
\* last_update 0 stand for None
EmptyProgress ==
    [processed_emails |-> <<>>, total_processed |-> 0, start_time |-> 0,
     last_update |-> 0]

\* load_progress
load_progress(file) == IF file = <<>> THEN EmptyProgress ELSE file[1]

\* progress_data as save_progress leaves it and writes it to progress.json
save_progress(data, count, now) ==
    [data EXCEPT !.total_processed = count, !.last_update = now]

\* `email_id in processed_emails`
InList(x, list) == \E k \in 1..Len(list) : list[k] = x

NoPending == [email_id |-> 0, attachments |-> <<>>, eml_file |-> FALSE]

NoIntr == [clean |-> FALSE, mid |-> FALSE, count |-> 0]

\* a metadata file whose json.dump raised part-way
PartialMetadata ==
    [valid |-> FALSE, subject |-> "", null_subject |-> FALSE,
     attachments |-> <<>>, eml_file |-> FALSE]

\* the message the walk stands at
Message == archive[cur.f][cur.m]

Running == pc # "idle"

\* the walk at the first folder, before its first message
Start == [f |-> 1, m |-> 0, direct |-> FALSE]

\* no process has run yet on archive arch, the store is empty (ids: every
\* id a process can assign)
InitOn(arch, ids) ==
    /\ archive = arch
    /\ pc = "idle"
    /\ cur = Start
    /\ processed_count = 0
    /\ progress_data = EmptyProgress
    /\ progress_file = <<>>
    /\ emails_dir = [i \in ids |-> <<>>]
    /\ attachments_dir = [i \in ids |-> {}]
    /\ metadata_dir = [i \in ids |-> <<>>]
    /\ pending = NoPending
    /\ clock = 0
    /\ ended = "none"
    /\ results = <<>>
    /\ results_at = 0
    /\ raised = FALSE
    /\ open_workbooks = 0
    /\ loaded = <<>>
    /\ prior = "none"
    /\ written = {}
    /\ intr = NoIntr

Init == InitOn(ShortArchive, IdsOf(ShortArchive))

store == <<emails_dir, attachments_dir, metadata_dir>>
history == <<loaded, prior, written, intr>>
output == <<results, results_at, raised, open_workbooks>>

\* PSTExtractor(pst).extract() is started: __init__ loads the progress
Construct ==
    /\ pc = "idle"
    /\ clock < MaxRuns
    /\ clock' = clock + 1
    /\ pc' = "open"
    /\ cur' = Start
    /\ processed_count' = 0
    /\ progress_data' = load_progress(progress_file)
    /\ pending' = NoPending
    /\ ended' = "running"
    /\ loaded' = progress_file
    /\ prior' = ended
    /\ written' = {}
    /\ intr' = IF ended = "interrupted" THEN intr ELSE NoIntr
    /\ raised' = FALSE
    /\ open_workbooks' = 0
    /\ UNCHANGED <<archive, progress_file, store, results, results_at>>

\* extract(): pst_file.open succeeded; start_time is set when it was None
ExtractOpen ==
    /\ pc = "open"
    /\ pc' = "root"
    /\ progress_data' =
         [progress_data EXCEPT !.start_time = IF @ = 0 THEN clock ELSE @]
    /\ UNCHANGED <<archive, cur, processed_count, progress_file, store, pending,
                   clock, ended, output, history>>

\* a handler of extract() that raises again without save_progress; what is
\* left in progress.json after a failed open depends on the save
ExtractFails_NoSave(how) ==
    /\ pc' = "idle"
    /\ ended' = how
    /\ UNCHANGED <<archive, cur, processed_count, progress_data, progress_file,
                   store, pending, clock, output, history>>

\* the handler of extract(): save_progress, then the error is raised again
ExtractFails(how) ==
    /\ progress_data' = save_progress(progress_data, processed_count, clock)
    /\ progress_file' = <<progress_data'>>
    /\ pc' = "idle"
    /\ ended' = how
    /\ UNCHANGED <<archive, cur, processed_count, store, pending, clock, output,
                   history>>

\* extract(): pst_file.open raises
ExtractOpenFails == pc = "open" /\ ExtractFails("open_failed")

\* extract(): get_root_folder returned, process_folder(root) begins
GetRootFolder ==
    /\ pc = "root"
    /\ pc' = "walk"
    /\ UNCHANGED <<archive, cur, processed_count, progress_data, progress_file,
                   store, pending, clock, ended, output, history>>

\* extract(): get_root_folder, or the name of the root folder, raises
GetRootFolderFails == pc = "root" /\ ExtractFails("error")

---------------------------------------------------------------------------
(* process_folder and process_message, step by step.                       *)

\* a process_message without the resume check; what a second run leaves
\* alone depends on the resume check
ProcessMessage_NoResume ==
    /\ pc = "walk"
    /\ cur.m < Len(archive[cur.f])
    /\ cur' = [cur EXCEPT !.m = @ + 1]
    /\ processed_count' = processed_count + 1
    /\ pc' = "attachments"
    /\ pending' = [NoPending EXCEPT !.email_id = processed_count']
    /\ UNCHANGED <<archive, progress_data, progress_file, store, clock, ended,
                   output, history>>

\* process_folder: the next message of the folder is handed to
\* process_message, which counts it, names it and returns at once when its
\* id is in processed_emails
ProcessMessage ==
    /\ pc = "walk"
    /\ cur.m < Len(archive[cur.f])
    /\ cur' = [cur EXCEPT !.m = @ + 1]
    /\ processed_count' = processed_count + 1
    /\ IF InList(processed_count', progress_data.processed_emails)
       THEN pc' = "walk" /\ pending' = NoPending
       ELSE pc' = "attachments" /\
            pending' = [NoPending EXCEPT !.email_id = processed_count']
    /\ UNCHANGED <<archive, progress_data, progress_file, store, clock, ended,
                   output, history>>

\* process_folder: get_sub_message raises in the loop over the messages of
\* the folder; the handler reads the folder again by direct iteration, from
\* index 0, and hands every message it gets to process_message
GetSubMessageFails ==
    /\ pc = "walk"
    /\ ~cur.direct
    /\ cur.m < Len(archive[cur.f])
    /\ "accessor" \in archive[cur.f][cur.m + 1].may_fail
    /\ cur' = [cur EXCEPT !.m = 0, !.direct = TRUE]
    /\ UNCHANGED <<archive, pc, processed_count, progress_data, progress_file,
                   store, pending, clock, ended, output, history>>

\* process_folder: get_sub_message raises in the direct iteration; the bare
\* except passes, and the messages of the folder are over
DirectIterationFails ==
    /\ pc = "walk"
    /\ cur.direct
    /\ cur.m < Len(archive[cur.f])
    /\ "accessor" \in archive[cur.f][cur.m + 1].may_fail
    /\ cur' = [cur EXCEPT !.m = Len(archive[cur.f])]
    /\ UNCHANGED <<archive, pc, processed_count, progress_data, progress_file,
                   store, pending, clock, ended, output, history>>

\* process_folder: the messages of the folder are done, the walk enters the
\* next folder
ProcessSubfolder ==
    /\ pc = "walk"
    /\ cur.m = Len(archive[cur.f])
    /\ cur.f < Len(archive)
    /\ cur' = [f |-> cur.f + 1, m |-> 0, direct |-> FALSE]
    /\ UNCHANGED <<archive, pc, processed_count, progress_data, progress_file,
                   store, pending, clock, ended, output, history>>

\* a file put into a directory: a file of the same name is replaced
WriteFile(dir, file) == {g \in dir : g.name # file.name} \cup {file}

RECURSIVE WriteAttachments(_, _, _, _)
\* the directory after the attachments atts[k..] whose index is not in
\* failed were written to it, in order
WriteAttachments(dir, atts, failed, k) ==
    IF k > Len(atts) THEN dir
    ELSE WriteAttachments(IF k \in failed THEN dir ELSE WriteFile(dir, atts[k]),
                          atts, failed, k + 1)

RECURSIVE ListAttachments(_, _, _)
\* the attachments list extract_attachments returns: the names written
ListAttachments(atts, failed, k) ==
    IF k > Len(atts) THEN <<>>
    ELSE (IF k \in failed THEN <<>> ELSE <<atts[k].name>>)
         \o ListAttachments(atts, failed, k + 1)

\* extract_attachments: the attachments are retrieved, read and written in
\* order. One whose reading or writing raises (failed) is skipped by the
\* inner handler; when a retrieval raises, the outer handler ends the loop
\* and the attachments gathered before are returned; when the count
\* accessor raises, the empty list is returned at once (got: the
\* attachments that were retrieved).
ExtractAttachments ==
    /\ pc = "attachments"
    /\ \E got \in {<<>>, Message.atts} :
         \E failed \in SUBSET (1..Len(got)) :
           /\ \/ got = Message.atts
              \/ Message.may_fail \cap {"count", "retrieve"} # {}
           /\ failed = {} \/ "attachment" \in Message.may_fail
           /\ attachments_dir' =
                [attachments_dir EXCEPT ![pending.email_id] =
                    WriteAttachments(@, got, failed, 1)]
           /\ pending' =
                [pending EXCEPT !.attachments = ListAttachments(got, failed, 1)]
           /\ written' =
                IF failed = 1..Len(got) THEN written
                ELSE written \cup {<<"attachment", pending.email_id>>}
    /\ pc' = "eml"
    /\ UNCHANGED <<archive, cur, processed_count, progress_data, progress_file,
                   emails_dir, metadata_dir, clock, ended, output, loaded, prior,
                   intr>>

\* create_eml_file: the .eml is written and its path returned
CreateEmlFile ==
    /\ pc = "eml"
    /\ emails_dir' = [emails_dir EXCEPT ![pending.email_id] =
                         <<[plain |-> Message.plain, html |-> Message.html]>>]
    /\ pending' = [pending EXCEPT !.eml_file = TRUE]
    /\ written' = written \cup {<<"eml", pending.email_id>>}
    /\ pc' = "metadata"
    /\ UNCHANGED <<archive, cur, processed_count, progress_data, progress_file,
                   attachments_dir, metadata_dir, clock, ended, output, loaded,
                   prior, intr>>

\* create_eml_file: building the message raises; the handler returns None
CreateEmlFileFails ==
    /\ pc = "eml"
    /\ "eml" \in Message.may_fail
    /\ pc' = "metadata"
    /\ UNCHANGED <<archive, cur, processed_count, progress_data, progress_file,
                   store, pending, clock, ended, output, history>>

\* the metadata record process_message writes
MetadataRecord ==
    [valid |-> TRUE, subject |-> Message.subject, null_subject |-> FALSE,
     attachments |-> pending.attachments, eml_file |-> pending.eml_file]

\* process_message: extract_metadata, then the record is written to
\* metadata/<id>.json
WriteMetadata ==
    /\ pc = "metadata"
    /\ metadata_dir' = [metadata_dir EXCEPT ![pending.email_id] = <<MetadataRecord>>]
    /\ written' = written \cup {<<"metadata", pending.email_id>>}
    /\ pc' = "progress"
    /\ UNCHANGED <<archive, cur, processed_count, progress_data, progress_file,
                   emails_dir, attachments_dir, pending, clock, ended, output,
                   loaded, prior, intr>>

\* a process_message without its handler: the error of json.dump reaches
\* extract(), which saves the progress and ends the run
WriteMetadataFails_Propagates ==
    /\ pc = "metadata"
    /\ "metadata" \in Message.may_fail
    /\ metadata_dir' = [metadata_dir EXCEPT ![pending.email_id] = <<PartialMetadata>>]
    /\ written' = written \cup {<<"metadata", pending.email_id>>}
    /\ progress_data' = save_progress(progress_data, processed_count, clock)
    /\ progress_file' = <<progress_data'>>
    /\ pc' = "idle"
    /\ ended' = "error"
    /\ pending' = NoPending
    /\ UNCHANGED <<archive, cur, processed_count, emails_dir, attachments_dir,
                   clock, output, loaded, prior, intr>>

\* process_message: json.dump raises after the file was opened for writing;
\* the handler of process_message prints the error and returns
WriteMetadataFails ==
    /\ pc = "metadata"
    /\ "metadata" \in Message.may_fail
    /\ metadata_dir' = [metadata_dir EXCEPT ![pending.email_id] = <<PartialMetadata>>]
    /\ written' = written \cup {<<"metadata", pending.email_id>>}
    /\ pc' = "walk"
    /\ pending' = NoPending
    /\ UNCHANGED <<archive, cur, processed_count, progress_data, progress_file,
                   emails_dir, attachments_dir, clock, ended, output, loaded,
                   prior, intr>>

\* process_message: the id is appended to processed_emails; every
\* CheckpointEvery-th message save_progress rewrites progress.json
UpdateProgress ==
    /\ pc = "progress"
    /\ LET appended == [progress_data EXCEPT
                           !.processed_emails = Append(@, pending.email_id)]
       IN IF processed_count % CheckpointEvery = 0
          THEN /\ progress_data' = save_progress(appended, processed_count, clock)
               /\ progress_file' = <<progress_data'>>
          ELSE /\ progress_data' = appended
               /\ UNCHANGED progress_file
    /\ pc' = "walk"
    /\ pending' = NoPending
    /\ UNCHANGED <<archive, cur, processed_count, store, clock, ended, output,
                   history>>

\* extract(): process_folder(root) returned; the final save_progress
ExtractFinish ==
    /\ pc = "walk"
    /\ cur.m = Len(archive[cur.f])
    /\ cur.f = Len(archive)
    /\ progress_data' = save_progress(progress_data, processed_count, clock)
    /\ progress_file' = <<progress_data'>>
    /\ pc' = "idle"
    /\ ended' = "done"
    /\ UNCHANGED <<archive, cur, processed_count, store, pending, clock, output,
                   history>>

\* whether every id up to the counter is in processed_emails
AllPersisted == \A i \in 1..processed_count : InList(i, progress_data.processed_emails)

\* KeyboardInterrupt (or the process being killed) while extract() runs: no
\* handler of extract() or of main() catches it and saves the progress, the
\* process ends
KeyboardInterrupt ==
    /\ Running
    /\ pc' = "idle"
    /\ ended' = "interrupted"
    /\ intr' = [clean |-> pc = "walk" /\ AllPersisted,
                mid |-> pc \in {"attachments", "eml", "metadata", "progress"},
                count |-> processed_count]
    /\ UNCHANGED <<archive, cur, processed_count, progress_data, progress_file,
                   store, pending, clock, output, loaded, prior, written>>

---------------------------------------------------------------------------
(* classify_email over the store. The text evidence and the attachment     *)
(* analysis of what a store can hold are tabulated, so that TLC evaluates  *)
(* the patterns once for each such content and not once for each state.    *)

\* the orders in which the members of a finite set can be enumerated
Perms(S) ==
    {s \in [1..Cardinality(S) -> S] : \A x \in S : \E k \in DOMAIN s : s[k] = x}

Range(s) == {s[k] : k \in DOMAIN s}

\* <<subject, eml, listing>> for every state of the store of message m
StoredAs(m) ==
    {<<m.subject, e, l>> :
        e \in {<<>>, <<[plain |-> m.plain, html |-> m.html]>>},
        l \in UNION {Perms(D) : D \in SUBSET Range(m.atts)}}

\* The stores the classifier is examined on directly hold one message,
\* with its subject, its .eml file and its attachment files drawn from:
Subjects ==
    {"hola", "COTIZACIÓN", "RE: Favor cotizar", "COTIZACION AGENTE 123",
     "RENOVACION POLIZA 456", "ENDOSO A", "RENOVACION ENDOSO", "RENOVAR"}

Emls ==
    {<<>>,
     <<[plain |-> "", html |-> ""]>>,
     <<[plain |-> "", html |-> "<p>Solicito su apoyo cotizando</p>"]>>,
     <<[plain |-> "Solicito renovación", html |-> ""]>>}

\* cells is the number of cells of the active sheet that the loop of
\* analyze_attachments counts (-1: openpyxl cannot load the file)
FilePool ==
    {[name |-> "SLIP.xlsx", cells |-> 6],
     [name |-> "SLIP.xlsx", cells |-> 3],
     [name |-> "SLIP.xlsx", cells |-> -2],
     [name |-> "slip borrador.xls", cells |-> 3],
     [name |-> "Cotizacion.pdf", cells |-> 0],
     [name |-> "Poliza.pdf", cells |-> 0]}

\* the attachment directories of at most MaxFiles files: the names of the
\* files of a directory differ
Directories ==
    {D \in SUBSET FilePool :
        /\ Cardinality(D) <= MaxFiles
        /\ \A f, g \in D : f.name = g.name => f = g}

KnownInputs ==
    UNION {UNION {StoredAs(ShortArchive[f][m]) : m \in 1..Len(ShortArchive[f])} :
              f \in DOMAIN ShortArchive}
    \cup {<<s, e, l>> : s \in Subjects, e \in Emls,
                        l \in UNION {Perms(D) : D \in Directories}}

\* the text evidence of every subject and .eml file of KnownInputs
EvidenceOf ==
    [t \in {<<k[1], k[2]>> : k \in KnownInputs} |->
        Evidence([subject |-> t[1]], extract_email_content(t[2]))]

\* the attachment analysis of every listing of KnownInputs
InfoOf == [l \in {k[3] : k \in KnownInputs} |-> analyze_attachments(l)]

\* classification with its 'email_id'
WithId(r, email_id) ==
    [x \in DOMAIN r \cup {"email_id"} |-> IF x = "email_id" THEN email_id ELSE r[x]]

\* classify_email(email_id) for a message whose metadata file is valid JSON
classify_email(email_id, metadata, eml, listing) ==
    WithId(ClassifyWith(InfoOf[listing], EvidenceOf[<<metadata.subject, eml>>]),
           email_id)

---------------------------------------------------------------------------
(* classify_all_emails: the aggregator over the metadata directory.        *)

EmptyResults ==
    [total_emails |-> 0, cotizacion |-> 0, renovacion |-> 0, endoso |-> 0,
     sin_clasificar |-> 0, emails |-> <<>>]

\* a loop body that appends the classification and counts no category
CountEmail_TotalOnly(res, classification) ==
    [res EXCEPT !.emails = Append(@, classification), !.total_emails = @ + 1]

\* the body of the loop of classify_all_emails for one classification
CountEmail(res, classification) ==
    LET primary_type == classification.primary_classification.type
    IN [res EXCEPT
          !.emails = Append(@, classification),
          !.total_emails = @ + 1,
          !.cotizacion = IF primary_type = "cotizacion" THEN @ + 1 ELSE @,
          !.renovacion = IF primary_type = "renovacion" THEN @ + 1 ELSE @,
          !.endoso = IF primary_type = "endoso" THEN @ + 1 ELSE @,
          !.sin_clasificar = IF primary_type = "sin_clasificar" THEN @ + 1 ELSE @]

RECURSIVE ClassifyFrom(_, _, _, _, _, _, _)
\* the loop of classify_all_emails from the k-th metadata file on: order is
\* the order in which glob yields the metadata files, listing[i] the order
\* in which iterdir yields the attachment files of message i
ClassifyFrom(res, order, listing, k, mdir, edir, adir) ==
    IF k > Len(order) THEN res
    ELSE LET i == order[k]
         IN ClassifyFrom(
                CountEmail(res, classify_email(i, mdir[i][1], edir[i], listing[i])),
                order, listing, k + 1, mdir, edir, adir)

\* the ids whose metadata file exists
MetadataIds(mdir) == {i \in DOMAIN mdir : mdir[i] # <<>>}

\* the results classify_all_emails computes over a store
classify_all_emails(order, listing, mdir, edir, adir) ==
    ClassifyFrom(EmptyResults, order, listing, 1, mdir, edir, adir)

\* every way iterdir can list the attachment directories of a store
Listings(adir) ==
    LET all == UNION {Perms(adir[i]) : i \in DOMAIN adir}
    IN {l \in [DOMAIN adir -> all] : \A i \in DOMAIN adir : l[i] \in Perms(adir[i])}

\* classify_email raises for a metadata file: json.load of a file that is
\* not valid JSON, or metadata.get('subject', '').upper() of a subject that
\* is null; neither classify_email nor classify_all_emails has a handler
Raises(metadata) == ~metadata.valid \/ metadata.null_subject

\* the files of the listings of KnownInputs that the slip check leaves open
LeftOpen == {f \in UNION {Range(l) : l \in DOMAIN InfoOf} : LeavesOpen(f)}

RECURSIVE OpenedFrom(_, _, _, _)
\* the workbooks the loop of classify_all_emails leaves open from the k-th
\* metadata file on: json.load raises before analyze_attachments is
\* called, the evaluators raise after it
OpenedFrom(order, k, mdir, adir) ==
    IF k > Len(order) THEN 0
    ELSE LET i == order[k]
         IN IF ~mdir[i][1].valid THEN 0
            ELSE Cardinality(adir[i] \cap LeftOpen)
                 + (IF mdir[i][1].null_subject THEN 0
                    ELSE OpenedFrom(order, k + 1, mdir, adir))

\* classify_all_emails is run on the store at rest, once for each state an
\* extractor process leaves it in, and writes classification_results.json.
\* An exception of classify_email leaves classify_all_emails before
\* anything is written.
ClassifyAllEmails ==
    /\ pc = "idle"
    /\ results = <<>> \/ results_at < clock
    /\ \E order \in Perms(MetadataIds(metadata_dir)) :
         /\ open_workbooks' = OpenedFrom(order, 1, metadata_dir, attachments_dir)
         /\ IF \E i \in MetadataIds(metadata_dir) : Raises(metadata_dir[i][1])
            THEN /\ raised' = TRUE
                 /\ UNCHANGED <<results, results_at>>
            ELSE /\ \E listing \in Listings(attachments_dir) :
                      results' = <<classify_all_emails(order, listing, metadata_dir,
                                                       emails_dir, attachments_dir)>>
                 /\ results_at' = clock
                 /\ raised' = FALSE
    /\ UNCHANGED <<archive, pc, cur, processed_count, progress_data, progress_file,
                   store, pending, clock, ended, history>>

---------------------------------------------------------------------------
(* The specification of the pipeline.                                      *)

Next ==
    \/ Construct
    \/ ExtractOpen
    \/ ExtractOpenFails
    \/ GetRootFolder
    \/ GetRootFolderFails
    \/ ProcessMessage
    \/ ProcessSubfolder
    \/ ExtractAttachments
    \/ CreateEmlFile
    \/ CreateEmlFileFails
    \/ WriteMetadata
    \/ WriteMetadataFails
    \/ UpdateProgress
    \/ ExtractFinish
    \/ KeyboardInterrupt
    \/ ClassifyAllEmails

Spec == Init /\ [][Next]_vars

---------------------------------------------------------------------------
(* The extraction of an archive whose accessors fail: runs of extract()    *)
(* that are not interrupted, on an archive with a message that holds two   *)
(* attachments of the same name, a message that get_sub_message can raise  *)
(* for, a message whose attachments cannot be retrieved, and a message     *)
(* whose count accessor raises.                                            *)

FaultyArchive ==
    << << [subject |-> "homonimos",
           plain |-> "",
           html |-> "",
           atts |-> << [name |-> "SLIP.xlsx", cells |-> 6],
                       [name |-> "SLIP.xlsx", cells |-> 3] >>,
           may_fail |-> {}],
          [subject |-> "ilegible",
           plain |-> "",
           html |-> "",
           atts |-> << >>,
           may_fail |-> {"accessor"}],
          [subject |-> "adjuntos",
           plain |-> "",
           html |-> "",
           atts |-> << [name |-> "Cotizacion.pdf", cells |-> 0],
                       [name |-> "Poliza.pdf", cells |-> 0] >>,
           may_fail |-> {"retrieve"}] >>,
       << [subject |-> "subcarpeta",
           plain |-> "",
           html |-> "",
           atts |-> << [name |-> "Cotizacion.pdf", cells |-> 0] >>,
           may_fail |-> {"count"}] >> >>

\* a folder read again by direct iteration hands its first messages to
\* process_message a second time, under new ids
InitFaulty == InitOn(FaultyArchive, 1..(2 * CountMessages(FaultyArchive, 1)))

NextFaulty ==
    \/ Construct
    \/ ExtractOpen
    \/ GetRootFolder
    \/ ProcessMessage
    \/ GetSubMessageFails
    \/ DirectIterationFails
    \/ ProcessSubfolder
    \/ ExtractAttachments
    \/ CreateEmlFile
    \/ WriteMetadata
    \/ UpdateProgress
    \/ ExtractFinish

SpecFaulty == InitFaulty /\ [][NextFaulty]_vars

---------------------------------------------------------------------------
(* The classifier on its own: the store holds one message or two, the      *)
(* subject, the .eml file and the attachment files of the first drawn from *)
(* Subjects, Emls and FilePool, the second being the first with another    *)
(* attachment directory; classify_all_emails is run on it.                 *)

RECURSIVE NamesOf(_, _)
\* the 'attachments' list of the metadata record for the files atts
NamesOf(atts, k) ==
    IF k > Len(atts) THEN <<>> ELSE <<atts[k].name>> \o NamesOf(atts, k + 1)

\* the subject of a stored metadata record: a text, or null (the archive
\* gave None for it)
StoredSubjects ==
    {[subject |-> s, null_subject |-> FALSE] : s \in Subjects}
    \cup {[subject |-> "", null_subject |-> TRUE]}

PolicyPdf == [name |-> "Poliza.pdf", cells |-> 0]

\* directory D with the cells of its slip spreadsheets left empty
SlipsEmptied(D) ==
    {IF f.cells > SlipCompleteOver THEN [f EXCEPT !.cells = 3] ELSE f : f \in D}

\* the directories the second message is given: that of the first with a
\* policy-PDF more, or with its slip spreadsheet less filled
Variants(D) == ({D \cup {PolicyPdf}, SlipsEmptied(D)} \cap Directories) \ {D}

\* the metadata record of a stored message
StoredRecord(sub, e, D) ==
    [valid |-> TRUE, subject |-> sub.subject, null_subject |-> sub.null_subject,
     attachments |-> NamesOf(CHOOSE l \in Perms(D) : TRUE, 1),
     eml_file |-> e # <<>>]

InitClassify ==
    /\ archive = <<>>
    /\ pc = "idle"
    /\ cur = Start
    /\ processed_count = 0
    /\ progress_data = EmptyProgress
    /\ progress_file = <<>>
    /\ \E sub \in StoredSubjects, e \in Emls, D \in Directories :
         \E dirs \in {<<D>>} \cup {<<D, E>> : E \in Variants(D)} :
           /\ emails_dir = [i \in DOMAIN dirs |-> e]
           /\ attachments_dir = [i \in DOMAIN dirs |-> dirs[i]]
           /\ metadata_dir =
                [i \in DOMAIN dirs |-> <<StoredRecord(sub, e, dirs[i])>>]
    /\ pending = NoPending
    /\ clock = 0
    /\ ended = "none"
    /\ results = <<>>
    /\ results_at = 0
    /\ raised = FALSE
    /\ open_workbooks = 0
    /\ loaded = <<>>
    /\ prior = "none"
    /\ written = {}
    /\ intr = NoIntr

NextClassify == ClassifyAllEmails

SpecClassify == InitClassify /\ [][NextClassify]_vars

---------------------------------------------------------------------------
(* Properties of the extraction (Spec).                                    *)

RECURSIVE Flatten(_, _)
\* the messages of arch from folder f on, in the order of the walk
Flatten(arch, f) ==
    IF f > Len(arch) THEN <<>> ELSE arch[f] \o Flatten(arch, f + 1)

\* the message of the archive that the walk names i
MessageOf(i) == Flatten(archive, 1)[i]

\* the .eml file, the metadata record and every attachment file of message i
\* are in the store
FullyWritten(i) ==
    /\ emails_dir[i] # <<>>
    /\ metadata_dir[i] # <<>>
    /\ metadata_dir[i][1].valid
    /\ \A k \in 1..Len(MessageOf(i).atts) :
         MessageOf(i).atts[k] \in attachments_dir[i]

\* the ids of processed_emails, in memory or in progress.json
InProgressState(i) ==
    \/ InList(i, progress_data.processed_emails)
    \/ InList(i, load_progress(progress_file).processed_emails)

\* C1: in every reachable state, every id of processed_emails has its .eml
\* file, its metadata record and all its attachment files written.
C1_AllOrNothing == \A i \in Ids : InProgressState(i) => FullyWritten(i)

\* C2: when the previous run was interrupted right after message k =
\* intr.count was persisted, the restarted run writes nothing for the ids
\* 1..k, and when it is done every message whose metadata write does not
\* fail has its metadata record.
C2_ResumeAfterInterrupt ==
    (prior = "interrupted" /\ intr.clean /\ ended \in {"running", "done"}) =>
        /\ \A w \in written : w[2] > intr.count
        /\ ended = "done" =>
              \A i \in IdsOf(archive) :
                  "metadata" \notin MessageOf(i).may_fail => metadata_dir[i] # <<>>

\* the run has ended: normally, by an error, or by an interrupt that came
\* during the walk, after process_message was entered
C3_RunEnded ==
    /\ pc = "idle"
    /\ \/ ended \in {"done", "error", "open_failed"}
       \/ ended = "interrupted" /\ processed_count >= 1

\* C3: whenever a run of extract() has ended (done, failed or interrupted
\* during the walk), progress.json was rewritten by that run and holds
\* exactly the ids the run had in processed_emails when it ended.
C3_SavedWhenRunEnds ==
    C3_RunEnded =>
        /\ progress_file # <<>>
        /\ progress_file[1].last_update = clock
        /\ progress_file[1].processed_emails = progress_data.processed_emails

\* the aggregate counts of classification_results.json
Counts(res) ==
    <<res.total_emails, res.cotizacion, res.renovacion, res.endoso,
      res.sin_clasificar>>

\* the run was started on the progress file a complete run left: the run
\* before it ended normally and every message of the archive is in the
\* processed_emails it saved
C4_Rerun ==
    /\ prior = "done"
    /\ loaded # <<>>
    /\ \A i \in IdsOf(archive) : InList(i, loaded[1].processed_emails)

\* nothing was written by the run and processed_emails is as it was loaded
C4_Untouched ==
    C4_Rerun =>
        /\ written = {}
        /\ progress_data.processed_emails = loaded[1].processed_emails
        /\ progress_file[1].processed_emails = loaded[1].processed_emails

\* an aggregation after the re-run, the one before it having been made
\* after the complete run, yields the same counts
C4_SameCounts ==
    (C4_Rerun /\ results # <<>> /\ results_at = clock - 1 /\ results_at' = clock) =>
        Counts(results'[1]) = Counts(results[1])

\* C4: a re-run on the progress file of a complete run (one that ended
\* normally with every message persisted) writes no .eml, attachment or
\* metadata file, leaves processed_emails unchanged, and the aggregation
\* after it counts what the aggregation before it counted.
C4_Idempotent == [][C4_Untouched' /\ C4_SameCounts]_vars

\* the re-run on the progress file of a complete run is done and the store
\* was aggregated after it
C4_Witness ==
    /\ C4_Rerun
    /\ ended = "done"
    /\ results # <<>>
    /\ results_at = clock
    /\ results[1].total_emails = CountMessages(archive, 1)

\* the ids classify_all_emails put into classification_results.json
EmailIds(res) == {res.emails[k].email_id : k \in 1..Len(res.emails)}

\* C5: the messages classify_all_emails classifies are exactly those whose
\* ids are in processed_emails of progress.json (the store is at rest and
\* was aggregated since the last run).
C5_VisibleIffCheckpointed ==
    (pc = "idle" /\ results # <<>> /\ results_at = clock) =>
        EmailIds(results[1]) = Range(load_progress(progress_file).processed_emails)

C7_OpenFailure ==
    (pc = "idle" /\ ended = "open_failed") =>
        /\ written = {}
        /\ processed_count = 0
        /\ progress_file # <<>>
        /\ progress_file[1].last_update = clock
        /\ progress_file[1].processed_emails = load_progress(loaded).processed_emails
        /\ progress_file[1].start_time = load_progress(loaded).start_time

\* the open failed in a run that had loaded a progress file with ids in it
C7_Witness ==
    /\ pc = "idle"
    /\ ended = "open_failed"
    /\ loaded # <<>>
    /\ loaded[1].processed_emails # <<>>
    /\ loaded[1].start_time # 0

---------------------------------------------------------------------------
(* Properties of the classifier (SpecClassify).                            *)

\* C8: every confidence of a classified message, the three category
\* confidences and the primary one, lies in 0..100.
C8_ScoreBounds ==
    results # <<>> =>
        \A k \in 1..Len(results[1].emails) :
            LET e == results[1].emails[k]
            IN /\ e.cotizacion.confidence \in 0..100
               /\ e.renovacion.confidence \in 0..100
               /\ e.endoso.confidence \in 0..100
               /\ e.primary_classification.confidence \in 0..100

\* the greatest of three numbers
Max3(a, b, c) ==
    IF a >= b /\ a >= c THEN a ELSE IF b >= c THEN b ELSE c

\* C9: the primary confidence is the greatest of the three category
\* confidences; when it is at least 30 the primary type is a category that
\* has it, and below 30 the type is sin_clasificar.
C9_PrimaryIsMaximal ==
    results # <<>> =>
        \A k \in 1..Len(results[1].emails) :
            LET e == results[1].emails[k]
                m == Max3(e.cotizacion.confidence, e.renovacion.confidence,
                          e.endoso.confidence)
                primary == e.primary_classification
            IN /\ primary.confidence = m
               /\ m >= 30 =>
                    /\ primary.type \in {"cotizacion", "renovacion", "endoso"}
                    /\ e[primary.type].confidence = m
               /\ m < 30 => primary.type = "sin_clasificar"

\* a message was classified as a renewal although its quote confidence, the
\* first that classify_email computes, reaches the floor too
C9_Witness ==
    /\ results # <<>>
    /\ \E k \in 1..Len(results[1].emails) :
         LET e == results[1].emails[k]
         IN /\ e.primary_classification.type = "renovacion"
            /\ e.cotizacion.confidence >= 30
            /\ e.renovacion.confidence > e.cotizacion.confidence

\* C10: a message whose only evidence is one quote keyword in the subject
\* (quote confidence 30, the other two 0, no agent code, no attachment) has
\* the primary type sin_clasificar.
C10_SingleKeywordUnclassified ==
    results # <<>> =>
        \A k \in 1..Len(results[1].emails) :
            LET e == results[1].emails[k]
            IN (/\ e.cotizacion.confidence = 30
                /\ e.renovacion.confidence = 0
                /\ e.endoso.confidence = 0
                /\ e.cotizacion.agente_code = ""
                /\ e.attachment_analysis.total_attachments = 0)
               => e.primary_classification.type = "sin_clasificar"

\* the classification of message i in classification_results.json
ResultOf(i) ==
    LET k == CHOOSE k \in 1..Len(results[1].emails) : results[1].emails[k].email_id = i
    IN results[1].emails[k]

\* the stored messages i and j have the same subject and the same .eml file
SameTexts(i, j) ==
    /\ metadata_dir[i][1].subject = metadata_dir[j][1].subject
    /\ emails_dir[i] = emails_dir[j]

\* the subject of stored message i holds a quote keyword
QuoteKeywordInSubject(i) ==
    EvidenceOf[<<metadata_dir[i][1].subject, emails_dir[i]>>].cotizacion_asunto

\* the slip evidence found for the classified messages i and j is the same
SameSlipEvidence(i, j) ==
    /\ ResultOf(i).attachment_analysis.has_slip
           = ResultOf(j).attachment_analysis.has_slip
    /\ ResultOf(i).attachment_analysis.slip_complete
           = ResultOf(j).attachment_analysis.slip_complete

\* C11: of two classified messages with the same texts and a quote keyword
\* in the subject whose attachments differ by a policy-PDF only (the same
\* slip evidence being found for both), the one with the policy-PDF has the
\* strictly lower quote confidence, whatever the other quote evidence is.
C11_PolicyPdfLowersQuote ==
    results # <<>> =>
        \A i, j \in EmailIds(results[1]) :
            (/\ SameTexts(i, j)
             /\ QuoteKeywordInSubject(i)
             /\ PolicyPdf \notin attachments_dir[i]
             /\ attachments_dir[j] = attachments_dir[i] \cup {PolicyPdf}
             /\ SameSlipEvidence(i, j))
            => ResultOf(j).cotizacion.confidence < ResultOf(i).cotizacion.confidence

\* the scores, the statuses and the primary classification of a result
Verdict(r) ==
    <<r.cotizacion.confidence, r.cotizacion.status,
      r.renovacion.confidence, r.renovacion.status,
      r.endoso.confidence, r.endoso.status,
      r.primary_classification>>

\* C12: the scores, the statuses and the primary classification written for
\* a message are those classify_email yields under every order in which
\* its attachment files can be enumerated, in whatever order the metadata
\* files were enumerated.
C12_OrderIndependent ==
    results # <<>> =>
        \A i \in EmailIds(results[1]) :
            \A l \in Perms(attachments_dir[i]) :
                Verdict(classify_email(i, metadata_dir[i][1], emails_dir[i], l))
                    = Verdict(ResultOf(i))

\* C13: classify_all_emails never ends by an exception of classify_email:
\* whatever the metadata files of the store hold (a null subject, a record
\* cut short), the run writes classification_results.json.
C13_NeverRaises == ~raised

\* the stored message i has the subject "ENDOSO A", no body, and one
\* attachment, a policy-PDF
C14_Case(i) ==
    /\ metadata_dir[i][1].subject = "ENDOSO A"
    /\ emails_dir[i] \in {<<>>, <<[plain |-> "", html |-> ""]>>}
    /\ attachments_dir[i] = {PolicyPdf}

\* C14: a classified message with the subject "ENDOSO A", no body and
\* exactly one attachment, a policy-PDF, has the primary type endoso, the
\* endorsement subtype "A" and the status "Endoso completo".
C14_EndosoA ==
    results # <<>> =>
        \A i \in EmailIds(results[1]) :
            C14_Case(i) =>
                /\ ResultOf(i).primary_classification.type = "endoso"
                /\ ResultOf(i).endoso.endoso_type = "A"
                /\ ResultOf(i).primary_classification.status = "Endoso completo"

\* the stored message i has the subject "COTIZACION AGENTE 123" and one
\* attachment, the slip spreadsheet f
C15_Case(i, f) ==
    /\ metadata_dir[i][1].subject = "COTIZACION AGENTE 123"
    /\ attachments_dir[i] = {f}
    /\ IsSlip(Upper(f.name))
    /\ f.cells >= 0

\* C15: a classified message with the subject "COTIZACION AGENTE 123" and a
\* slip spreadsheet has the primary type cotizacion; its status is
\* "Cotización con información completa" when the slip has more than 5
\* filled cells and "Cotización pendiente" when it has 5 or fewer.
C15_SlipStatus ==
    results # <<>> =>
        \A i \in EmailIds(results[1]) : \A f \in attachments_dir[i] :
            C15_Case(i, f) =>
                /\ ResultOf(i).primary_classification.type = "cotizacion"
                /\ ResultOf(i).primary_classification.status =
                     IF f.cells > 5 THEN "Cotización con información completa"
                     ELSE "Cotización pendiente"

\* both cases were classified: a message whose slip has 6 filled cells and
\* one whose slip has 3
C15_Witness ==
    /\ results # <<>>
    /\ \E i, j \in EmailIds(results[1]) : \E f \in attachments_dir[i] :
         \E g \in attachments_dir[j] :
            /\ C15_Case(i, f) /\ f.cells > 5
            /\ C15_Case(j, g) /\ g.cells <= 5
            /\ ResultOf(i).primary_classification.status
                  = "Cotización con información completa"
            /\ ResultOf(j).primary_classification.status = "Cotización pendiente"

\* C16: of two classified messages with the same texts whose attachments
\* differ only in the slip spreadsheet of one being complete and that of
\* the other not, both have the same quote confidence.
C16_SlipCompletenessNotScored ==
    results # <<>> =>
        \A i, j \in EmailIds(results[1]) :
            (/\ SameTexts(i, j)
             /\ attachments_dir[j] = SlipsEmptied(attachments_dir[i])
             /\ ResultOf(i).attachment_analysis.slip_complete
             /\ ~ResultOf(j).attachment_analysis.slip_complete)
            => ResultOf(j).cotizacion.confidence = ResultOf(i).cotizacion.confidence

\* the classification of stored message i when the evaluators read text as
\* the body
EvaluatedOn(i, text) ==
    Evaluators(metadata_dir[i][1], ResultOf(i).attachment_analysis,
               [NoContent EXCEPT !.combined_text = text])

\* C17: a classified message whose .eml file has a plain body was evaluated
\* against the plain body, and one whose .eml file has an HTML part only
\* against the text of the HTML part.
C17_PlainBodyPreferred ==
    results # <<>> =>
        \A i \in EmailIds(results[1]) :
            emails_dir[i] # <<>> =>
                Verdict(ResultOf(i)) =
                    Verdict(EvaluatedOn(i, IF emails_dir[i][1].plain # ""
                                           THEN emails_dir[i][1].plain
                                           ELSE get_text(emails_dir[i][1].html)))

---------------------------------------------------------------------------
(* Properties of the extraction of an archive whose accessors fail         *)
(* (SpecFaulty). The messages of FaultyArchive differ in their subjects.   *)

\* the message of the archive whose metadata record is stored under id i
SourceOf(i) ==
    LET all == Flatten(archive, 1)
    IN all[CHOOSE k \in 1..Len(all) : all[k].subject = metadata_dir[i][1].subject]

\* the file of the name `name` in the attachment directory of id i
FileNamed(i, name) == {g \in attachments_dir[i] : g.name = name}

\* C18: for every stored message whose attachments were all retrieved, read
\* and written without an error, the 'attachments' list of its metadata
\* record has one entry for each attachment of the message, in order, and
\* the file the k-th entry names holds the data of the k-th attachment,
\* also when attachments of the message have the same file name.
C18_SameNameKept ==
    \A i \in Ids :
        (/\ metadata_dir[i] # <<>>
         /\ SourceOf(i).may_fail \cap {"count", "retrieve", "attachment"} = {})
        => LET atts == SourceOf(i).atts
               listed == metadata_dir[i][1].attachments
           IN /\ Len(listed) = Len(atts)
              /\ \A k \in 1..Len(atts) :
                    /\ listed[k] = atts[k].name
                    /\ FileNamed(i, listed[k]) = {atts[k]}

\* C19: for every stored message, each attachment that did not fail itself
\* (for a message of the archive only the retrieval of the first attachment
\* can fail: every attachment after the first) is in the attachment
\* directory of the message and in the 'attachments' list of its metadata
\* record.
C19_OnlyFailingSkipped ==
    \A i \in Ids :
        (/\ metadata_dir[i] # <<>>
         /\ "attachment" \notin SourceOf(i).may_fail)
        => \A k \in 2..Len(SourceOf(i).atts) :
              /\ FileNamed(i, SourceOf(i).atts[k].name) # {}
              /\ InList(SourceOf(i).atts[k].name, metadata_dir[i][1].attachments)

\* the message msg of the archive is stored under some id
Stored(msg) ==
    \E i \in Ids : metadata_dir[i] # <<>> /\ metadata_dir[i][1].subject = msg.subject

\* C20: when the first run over the archive is done, every message for
\* which no accessor fails is stored, also the messages that follow, in the
\* same folder or in a later one, a message that get_sub_message raised
\* for.
C20_SiblingsProcessed ==
    (ended = "done" /\ clock = 1) =>
        \A f \in DOMAIN archive : \A m \in DOMAIN archive[f] :
            "accessor" \notin archive[f][m].may_fail => Stored(archive[f][m])

---------------------------------------------------------------------------
(* Further properties of the extraction (Spec).                            *)

\* C21: when the previous run was interrupted in the middle of the message
\* it had named intr.count, the restarted run writes no metadata record
\* under that id.
C21_IdBurned ==
    (prior = "interrupted" /\ intr.mid /\ ended \in {"running", "done"}) =>
        <<"metadata", intr.count>> \notin written

\* C22: no step of any run changes or removes a file of the store: an .eml
\* file, a metadata record and an attachment file stay as they were first
\* written.
C22_AppendOnly ==
    [][\A i \in Ids :
          /\ emails_dir[i] # <<>> => emails_dir'[i] = emails_dir[i]
          /\ metadata_dir[i] # <<>> => metadata_dir'[i] = metadata_dir[i]
          /\ \A g \in attachments_dir[i] : g \in attachments_dir'[i]]_vars

---------------------------------------------------------------------------
(* Further properties of the classifier (SpecClassify).                    *)

\* C23: after classify_all_emails, no workbook that the slip check of
\* analyze_attachments opened is left open.
C23_WorkbooksClosed == open_workbooks = 0

\* the subject of stored message i matches a renewal subject pattern
RenewalKeywordInSubject(i) ==
    EvidenceOf[<<metadata_dir[i][1].subject, emails_dir[i]>>].renovacion_asunto

\* C24: a classified message with a quote-PDF whose subject matches a
\* renewal subject pattern is not penalized: its renewal confidence is at
\* least the weight of the subject keyword, every other renewal criterion
\* adding to the score.
C24_KeywordNotPenalized ==
    results # <<>> =>
        \A i \in EmailIds(results[1]) :
            (/\ RenewalKeywordInSubject(i)
             /\ ResultOf(i).attachment_analysis.pdf_cotizacion # <<>>)
                => ResultOf(i).renovacion.confidence >= 35

\* the met flag (is_cotizacion, is_renovacion, is_endoso) of the category
\* named type in the result r
MetOf(r, type) ==
    CASE type = "cotizacion" -> r.cotizacion.met
      [] type = "renovacion" -> r.renovacion.met
      [] type = "endoso" -> r.endoso.met
      [] OTHER -> FALSE

\* C27: the category a classified message has as its primary type has its
\* met flag set, and a message with a met flag set in any category does not
\* have the primary type sin_clasificar.
C27_PrimaryIsMet ==
    results # <<>> =>
        \A i \in EmailIds(results[1]) :
            LET r == ResultOf(i)
                type == r.primary_classification.type
            IN /\ type # "sin_clasificar" => MetOf(r, type)
               /\ (r.cotizacion.met \/ r.renovacion.met \/ r.endoso.met)
                      => type # "sin_clasificar"

\* the entries of the emails list of the result set res whose primary type
\* is type
EntriesOf(res, type) ==
    {k \in 1..Len(res.emails) : res.emails[k].primary_classification.type = type}

\* C29: in a written result set, total_emails is the length of the emails
\* list and the sum of the four category counts, and each category count is
\* the number of entries of the emails list with that primary type.
C29_CountsConsistent ==
    results # <<>> =>
        LET res == results[1]
        IN /\ res.total_emails = Len(res.emails)
           /\ res.total_emails = res.cotizacion + res.renovacion + res.endoso
                                     + res.sin_clasificar
           /\ res.cotizacion = Cardinality(EntriesOf(res, "cotizacion"))
           /\ res.renovacion = Cardinality(EntriesOf(res, "renovacion"))
           /\ res.endoso = Cardinality(EntriesOf(res, "endoso"))
           /\ res.sin_clasificar = Cardinality(EntriesOf(res, "sin_clasificar"))

\* a result set written for two messages of different primary types, one
\* of them unclassified
C29_Witness ==
    /\ results # <<>>
    /\ Len(results[1].emails) = 2
    /\ results[1].sin_clasificar = 1
    /\ results[1].cotizacion = 1

---------------------------------------------------------------------------
(* Further properties of the extraction of an archive whose accessors fail *)
(* (SpecFaulty).                                                           *)

\* C25: a stored message for which the count accessor raises and indexed
\* retrieval works has all its attachments extracted: each is listed in its
\* metadata record and is in its attachment directory.
C25_IndexedFallback ==
    \A i \in Ids :
        (/\ metadata_dir[i] # <<>>
         /\ SourceOf(i).may_fail = {"count"})
        => LET atts == SourceOf(i).atts
           IN /\ Len(metadata_dir[i][1].attachments) = Len(atts)
              /\ \A k \in 1..Len(atts) : atts[k] \in attachments_dir[i]

\* C28: in the first run over the archive no message is stored under two
\* ids.
C28_OneIdPerMessage ==
    clock = 1 =>
        \A i, j \in Ids :
            (/\ i # j
             /\ metadata_dir[i] # <<>>
             /\ metadata_dir[j] # <<>>)
            => metadata_dir[i][1].subject # metadata_dir[j][1].subject

---------------------------------------------------------------------------
(* Properties of progress.json (Spec).                                     *)

\* C30: progress.json, whenever it exists, has no id twice in
\* processed_emails, and its total_processed is the number of ids in
\* processed_emails.
C30_ProgressConsistent ==
    progress_file # <<>> =>
        LET ids == progress_file[1].processed_emails
        IN /\ \A j, k \in 1..Len(ids) : ids[j] = ids[k] => j = k
           /\ progress_file[1].total_processed = Len(ids)

---------------------------------------------------------------------------
(* The extraction of an archive longer than one checkpoint period: runs of *)
(* extract() that are not interrupted, on one folder of messages without   *)
(* body and attachments. The json.dump of the metadata record of the       *)
(* message at which the checkpoint is due can raise.                       *)

LongArchive ==
    << [k \in 1..(CheckpointEvery + 2) |->
          [subject |-> "mensaje",
           plain |-> "",
           html |-> "",
           atts |-> << >>,
           may_fail |-> IF k = CheckpointEvery THEN {"metadata"} ELSE {}]] >>

InitLong == InitOn(LongArchive, IdsOf(LongArchive))

NextLong ==
    \/ Construct
    \/ ExtractOpen
    \/ GetRootFolder
    \/ ProcessMessage
    \/ ExtractAttachments
    \/ CreateEmlFile
    \/ WriteMetadata
    \/ WriteMetadataFails
    \/ UpdateProgress
    \/ ExtractFinish

SpecLong == InitLong /\ [][NextLong]_vars

\* the ids persisted so far that progress.json on disk does not list
NotOnDisk ==
    Range(progress_data.processed_emails)
        \ Range(load_progress(progress_file).processed_emails)

\* C26: at no point of a run are more than CheckpointEvery - 1 persisted ids
\* missing from progress.json on disk.
C26_PeriodicCheckpoint ==
    Running => Cardinality(NotOnDisk) <= CheckpointEvery - 1

====
